---- MODULE Spec2Model ----
(***************************************************************************)
(* Model of snsinfu/tsv (tsv.hpp): the conversion traits, the field        *)
(* splitter, detail::line_reader, detail::parser and tsv::load.            *)
(*                                                                         *)
(* A line is a sequence of one-character strings.  The input stream is a   *)
(* sequence of lines read by std::getline; each line is terminated by a    *)
(* newline, except that the text may end without one after its last line.  *)
(* A record type is a sequence of field types plus a flag telling whether  *)
(* it declares a validate() member.                                        *)
(***************************************************************************)
EXTENDS Integers, Sequences, FiniteSets, TLC

VARIABLES
    lines,        \* content of the std::istream, one element per line
    terminated,   \* the text of the stream ends with a newline or is empty
    failAt,       \* the read at which the stream goes bad (0: never)
    opts,         \* tsv::options {delimiter, header, comment}
    RecordT,      \* the Record template argument [fields, validate]
    _input,       \* line_reader::_input, the stream state [pos, eof, bad]
    _source,      \* parser::_source [line, line_number, available]
    _delim,       \* parser::_delim
    pc,           \* position inside tsv::load, or "parser" for direct calls
    records,      \* the vector load() builds
    record,       \* the record object handed to parse_record
    fields,       \* the vector handed to parse_fields
    ret,          \* what the last parser/line_reader call returned
    err,          \* the exception in flight (kind "none": no exception)
    last,         \* the last call made, what it saw, the prefix before it
    taken,        \* history: number of lines handed out by consume()
    consumedBy,   \* history: which step of load consumed each line
    validated     \* history: number of validate() hook calls made by load

vars == <<lines, terminated, failAt, opts, RecordT, _input, _source, _delim,
          pc, records, record, fields, ret, err, last, taken, consumedBy,
          validated>>

----------------------------------------------------------------------------
(* Bounds *)

MaxLineLen == 4      \* longest single line explored exhaustively
MaxLines == 3        \* longest multi-line input
MaxFields == 34      \* largest aggregate handed to the reflection

----------------------------------------------------------------------------
(* Characters *)

TAB == "\t"
HASH == "#"
NUL == "NUL"         \* the character of code 0 (options::comment default)

Chars == {TAB, HASH, NUL, "1"}

SeqsUpTo(S, n) == UNION {[1..k -> S] : k \in 0..n}

\* The value of an expression that is computed once: S holds that value only.
The(S) == CHOOSE x \in S : TRUE

AllLines == SeqsUpTo(Chars, MaxLineLen)

(* Lines used to build multi-line inputs: empty, comment, a well-formed    *)
(* record of two fields, too few fields, an unconvertible field (also a    *)
(* header text), and records of three fields: one the validate() hook      *)
(* accepts, one its row < column check rejects, one its value >= 0 check   *)
(* rejects, one both checks reject.                                        *)
SampleLines ==
    { <<>>,
      <<HASH, "1">>,
      <<"1", TAB, "2">>,
      <<"7">>,
      <<"1", TAB, "x">>,
      <<"1", TAB, "2", TAB, "3">>,
      <<"2", TAB, "1", TAB, "3">>,
      <<"1", TAB, "2", TAB, "-", "1">>,
      <<"2", TAB, "1", TAB, "-", "1">> }

Inputs == {<<l>> : l \in AllLines} \cup SeqsUpTo(SampleLines, MaxLines)

(* Lines used to build multi-line inputs for direct parser calls: empty,   *)
(* starting with either prefix, a well-formed record, too few fields.      *)
ShortLines ==
    { <<>>,
      <<HASH>>,
      <<NUL, "1">>,
      <<"1", TAB, "2">>,
      <<"x">> }

ParserInputs == {<<l>> : l \in AllLines} \cup SeqsUpTo(ShortLines, MaxLines)

\* How the text made of the lines ls may end: with a newline, or, when its
\* last line is not empty, without one (explored on the inputs of fewer
\* than MaxLines lines).
Endings(ls) ==
    IF ls # <<>> /\ ls[Len(ls)] # <<>> /\ Len(ls) < MaxLines
    THEN BOOLEAN ELSE {TRUE}

Delimiters == {TAB}
Prefixes == {NUL, HASH}

(* Field types: "u8" is an unsigned 8-bit integer, "unsigned" and "double" *)
(* are the other numeric types used (all three go through                  *)
(* std::from_chars), "char" and "string" are the two explicit              *)
(* specialisations.  The record type with a validate() hook is my_record   *)
(* of the documentation of tsv::check: unsigned row, unsigned column,      *)
(* double value.                                                           *)
RecordTypes ==
    { [fields |-> <<>>, validate |-> FALSE],
      [fields |-> <<"u8">>, validate |-> FALSE],
      [fields |-> <<"u8", "u8">>, validate |-> FALSE],
      [fields |-> <<"unsigned", "unsigned", "double">>, validate |-> TRUE],
      [fields |-> <<"u8", "string">>, validate |-> FALSE],
      [fields |-> <<"string", "u8", "u8">>, validate |-> FALSE] }

----------------------------------------------------------------------------
(* tsv::error and its subclasses *)

missing_header == "header is expected but not seen"
missing_field == "insufficient number of fields"
excess_field == "excess fields"
parse_unknown == "parse error"
out_of_range == "value out of range"
leftover == "excess character(s) at the end of a field"
io_unknown == "input error"
validation_message == "row index must be smaller than column index"
value_message == "value must be non-negative"

NoError == [kind |-> "none", what |-> "", line |-> <<>>, line_number |-> 0]

\* A freshly constructed exception: no line, line number zero.
Error(kind, what) ==
    [kind |-> kind, what |-> what, line |-> <<>>, line_number |-> 0]

----------------------------------------------------------------------------
(* Structure reflection *)

\* Number of hard-coded splat overloads (TSV_SPLAT(1..32)).
MaxSplat == 32

\* Mutant: one initializer more than there are fields is accepted.
Constructible_extra(Ts, m) == m <= Len(Ts) + 1

\* Record{any{}, ...} with m stand-ins in all is well-formed: a flat
\* aggregate takes at most one initializer per field, and any converts to
\* every field type.
Constructible(Ts, m) == m <= Len(Ts)

\* record_size<Record, void, Inits...>::value with k stand-ins in Inits:
\* the specialisation is chosen when one more stand-in still constructs
\* the record, the primary template (0) otherwise.
RECURSIVE record_size(_, _)
record_size(Ts, k) ==
    IF Constructible(Ts, k + 1) THEN record_size(Ts, k + 1) + 1
    ELSE 0

\* record_size_v<Record>
record_size_v(Ts) == record_size(Ts, 0)

\* type_list_of(a1, ..., aN) for the structured binding auto [a1, ..., aN]
\* = record, whose i-th name is the i-th field.
type_list_of(Ts, N) == [i \in 1..N |-> Ts[i]]

\* splat(record, size<N>): the overload for N, when there is one and the
\* binding names as many fields as the record has.
splat(Ts, N) ==
    IF N = 0 THEN [ok |-> TRUE, types |-> <<>>]
    ELSE IF N <= MaxSplat /\ N = Len(Ts)
    THEN [ok |-> TRUE, types |-> type_list_of(Ts, N)]
    ELSE [ok |-> FALSE, types |-> <<>>]

\* field_type_list<Record>
field_type_list(Ts) == splat(Ts, record_size_v(Ts))

----------------------------------------------------------------------------
(* Conversion *)

Digits == {"0", "1", "2", "3", "4", "5", "6", "7", "8", "9"}

DigitVal(c) ==
    CASE c = "0" -> 0 [] c = "1" -> 1 [] c = "2" -> 2 [] c = "3" -> 3
      [] c = "4" -> 4 [] c = "5" -> 5 [] c = "6" -> 6 [] c = "7" -> 7
      [] c = "8" -> 8 [] c = "9" -> 9

NumMax(T) == CASE T = "u8" -> 255

\* Number of leading decimal digits of text.
RECURSIVE DigitRun(_)
DigitRun(text) ==
    IF text = <<>> \/ Head(text) \notin Digits THEN 0
    ELSE 1 + DigitRun(Tail(text))

\* One more digit d after the value hi; sticks at max + 1 on overflow.
Shift(hi, d, max) ==
    IF hi > max THEN max + 1
    ELSE IF hi * 10 + d > max THEN max + 1
    ELSE hi * 10 + d

\* Value of characters i..n of text appended to v.
RECURSIVE Accumulate(_, _, _, _, _)
Accumulate(text, i, n, max, v) ==
    IF i > n THEN v
    ELSE Accumulate(text, i + 1, n, max, Shift(v, DigitVal(text[i]), max))

\* What std::from_chars reports for n leading digits of value v.
from_chars_result(n, v, max) ==
    IF n = 0
    THEN [ec |-> "invalid_argument", remain |-> 0, value |-> 0]
    ELSE IF v > max
    THEN [ec |-> "result_out_of_range", remain |-> n, value |-> 0]
    ELSE [ec |-> "ok", remain |-> n, value |-> v]

\* std::from_chars for an unsigned integer type of maximum max.
from_chars(text, max) ==
    from_chars_result(DigitRun(text),
                      Accumulate(text, 1, DigitRun(text), max, 0), max)

Thrown(e) == [thrown |-> TRUE, exc |-> e, value |-> <<>>]
Value(v) == [thrown |-> FALSE, exc |-> NoError, value |-> v]

\* Mutant: characters after the number are ignored.
parse_numeric_on_prefix(r, text) ==
    IF r.ec # "ok"
    THEN Thrown(Error("parse",
             IF r.ec = "result_out_of_range" THEN out_of_range
             ELSE parse_unknown))
    ELSE Value(r.value)

\* default_conversion<T>::parse for the numeric types, after from_chars
\* returned r.
parse_numeric_on(r, text) ==
    IF r.ec # "ok"
    THEN Thrown(Error("parse",
             IF r.ec = "result_out_of_range" THEN out_of_range
             ELSE parse_unknown))
    ELSE IF r.remain # Len(text)
    THEN Thrown(Error("parse", leftover))
    ELSE Value(r.value)

(* TLC's integers end at 2^31 - 1, below the largest unsigned, so a value   *)
(* of type unsigned is held as its decimal numeral: its digits without     *)
(* leading zeros.                                                          *)
RECURSIVE StripZeros(_)
StripZeros(d) ==
    IF Len(d) > 1 /\ Head(d) = "0" THEN StripZeros(Tail(d)) ELSE d

\* a < b for numerals of the same length.
RECURSIVE LexLess(_, _)
LexLess(a, b) ==
    IF a = <<>> THEN FALSE
    ELSE IF Head(a) # Head(b) THEN DigitVal(Head(a)) < DigitVal(Head(b))
    ELSE LexLess(Tail(a), Tail(b))

\* a < b for numerals.
NumeralLess(a, b) ==
    \/ Len(a) < Len(b)
    \/ Len(a) = Len(b) /\ LexLess(a, b)

\* std::numeric_limits<unsigned>::max(), 2^32 - 1.
UnsignedMax == <<"4", "2", "9", "4", "9", "6", "7", "2", "9", "5">>

\* What std::from_chars reports for n leading digits that spell v.
from_chars_unsigned_result(n, v) ==
    IF n = 0
    THEN [ec |-> "invalid_argument", remain |-> 0, value |-> <<"0">>]
    ELSE IF NumeralLess(UnsignedMax, v)
    THEN [ec |-> "result_out_of_range", remain |-> n, value |-> <<"0">>]
    ELSE [ec |-> "ok", remain |-> n, value |-> v]

\* std::from_chars for unsigned.
from_chars_unsigned(text) ==
    from_chars_unsigned_result(DigitRun(text),
                               StripZeros(SubSeq(text, 1, DigitRun(text))))

(* A double is held as its sign and its decimal numeral: the digits before *)
(* the point without leading zeros and the digits after it without         *)
(* trailing zeros.  Tokens are at most a few characters long, so every     *)
(* numeral is in range and no two numerals round to the same double; an    *)
(* exponent, "inf" and "nan" are not among the characters of the inputs.   *)
POINT == "."

RECURSIVE StripTrailingZeros(_)
StripTrailingZeros(d) ==
    IF d # <<>> /\ d[Len(d)] = "0"
    THEN StripTrailingZeros(SubSeq(d, 1, Len(d) - 1))
    ELSE d

Negative(text) == text # <<>> /\ Head(text) = "-"

\* The text after the sign.
Magnitude(text) == IF Negative(text) THEN Tail(text) ELSE text

\* m has a decimal point after its w leading digits.
HasPoint(m, w) == Len(m) > w /\ m[w + 1] = POINT

\* Number of digits after the point.
FractionRun(m, w) ==
    IF HasPoint(m, w) THEN DigitRun(SubSeq(m, w + 2, Len(m))) ELSE 0

\* What std::from_chars reports for a sign, w digits, a point if any and f
\* more digits at the start of the text.
from_chars_double_result(neg, m, w, f) ==
    IF w = 0 /\ f = 0
    THEN [ec |-> "invalid_argument", remain |-> 0,
          value |-> [neg |-> FALSE, whole |-> <<"0">>, frac |-> <<>>]]
    ELSE [ec |-> "ok",
          remain |-> (IF neg THEN 1 ELSE 0) + w
                        + (IF HasPoint(m, w) THEN 1 + f ELSE 0),
          value |-> [neg |-> neg,
                     whole |-> IF w = 0 THEN <<"0">>
                               ELSE StripZeros(SubSeq(m, 1, w)),
                     frac |-> StripTrailingZeros(SubSeq(m, w + 2, w + 1 + f))]]

\* std::from_chars for double (std::chars_format::general).
from_chars_double(text) ==
    from_chars_double_result(Negative(text), Magnitude(text),
                             DigitRun(Magnitude(text)),
                             FractionRun(Magnitude(text),
                                         DigitRun(Magnitude(text))))

\* value >= 0 for a double; -0.0 >= 0 holds.
NonNegative(x) == ~x.neg \/ (x.whole = <<"0">> /\ x.frac = <<>>)

\* default_conversion<T>::parse for the numeric types.
parse_numeric(T, text) ==
    CASE T = "u8" -> parse_numeric_on(from_chars(text, NumMax(T)), text)
      [] T = "unsigned" -> parse_numeric_on(from_chars_unsigned(text), text)
      [] T = "double" -> parse_numeric_on(from_chars_double(text), text)

\* default_conversion<char>::parse
parse_char(text) ==
    IF Len(text) # 1 THEN Thrown(Error("parse", parse_unknown))
    ELSE Value(text[1])

\* default_conversion<std::string>::parse
parse_string(text) == Value(text)

(* The generic fallback reads the token from a std::istringstream.  The     *)
(* stream is [pos, eof, fail]: the number of characters extracted and the  *)
(* eofbit and failbit; the field type is my_rational, whose operator>>     *)
(* reads "numerator delim denominator" and requires delim to be a slash.   *)

SPACE == " "
SLASH == "/"
MINUS == "-"

\* An int object: the value it was assigned, or no value at all while it is
\* declared and not assigned.
Known(v) == [known |-> TRUE, v |-> v]
Indeterminate == [known |-> FALSE]

IntMax == 2147483647
IntMin == (0 - IntMax) - 1

good(st) == ~st.eof /\ ~st.fail

\* Position reached by skipping the whitespace that follows position p.
RECURSIVE ws_end(_, _)
ws_end(text, p) ==
    IF p < Len(text) /\ text[p + 1] = SPACE THEN ws_end(text, p + 1)
    ELSE p

\* std::istream::sentry with skipws once the whitespace is skipped up to p.
sentry_at(text, p) ==
    [pos |-> p, eof |-> p = Len(text), fail |-> p = Len(text)]

\* std::istream::sentry (skipws): fails on a stream that is not good and
\* on a stream that ends after the whitespace.
sentry(text, st) ==
    IF ~good(st) THEN [st EXCEPT !.fail = TRUE]
    ELSE sentry_at(text, ws_end(text, st.pos))

\* Number of digits that follow position p.
digits_after(text, p) == DigitRun(SubSeq(text, p + 1, Len(text)))

\* std::num_get for int after the sign (sgn, starting at position p) and n
\* digits were accumulated: no digit is a failure that stores zero, and
\* running into the end sets eofbit.
num_get_digits(text, p, sgn, n) ==
    [st |-> [pos |-> p + sgn + n,
             eof |-> p + sgn + n = Len(text),
             fail |-> n = 0],
     value |-> IF n = 0 THEN Known(0)
               ELSE IF sgn = 1
               THEN Known(0 - Accumulate(text, p + 2, p + 1 + n, IntMax, 0))
               ELSE Known(Accumulate(text, p + 1, p + n, IntMax, 0))]

\* std::num_get for int at position p (not the end of the text).
num_get(text, p) ==
    IF text[p + 1] = MINUS
    THEN num_get_digits(text, p, 1, digits_after(text, p + 1))
    ELSE num_get_digits(text, p, 0, digits_after(text, p))

\* operator>>(int&) once the sentry left the stream in s; old is the value
\* the int had.
extract_int_sentried(text, s, old) ==
    IF s.fail THEN [st |-> s, value |-> old]
    ELSE num_get(text, s.pos)

extract_int(text, st, old) == extract_int_sentried(text, sentry(text, st), old)

\* operator>>(char&) once the sentry left the stream in s.
extract_char_sentried(text, s, old) ==
    IF s.fail THEN [st |-> s, value |-> old]
    ELSE [st |-> [s EXCEPT !.pos = @ + 1], value |-> text[s.pos + 1]]

extract_char(text, st, old) ==
    extract_char_sentried(text, sentry(text, st), old)

\* operator>>(std::istream&, my_rational&) once the three extractions
\* returned n, d and m: a failed stream or a wrong delim sets failbit.
rational_extracted(n, d, m) ==
    [st |-> [m.st EXCEPT !.fail = m.st.fail \/ d.value # SLASH],
     value |-> [numerator |-> n.value, denominator |-> m.value]]

rational_delim(text, n, d) ==
    rational_extracted(n, d, extract_int(text, d.st, Indeterminate))

rational_numerator(text, n) ==
    rational_delim(text, n, extract_char(text, n.st, NUL))

\* operator>>(std::istream&, my_rational&) on a fresh stream over text.
extract_rational(text) ==
    rational_numerator(text,
        extract_int(text, [pos |-> 0, eof |-> FALSE, fail |-> FALSE],
                    Indeterminate))

\* stream.get() != char_traits::eof(): a character is left to read.
get_has_char(text, st) == good(st) /\ st.pos < Len(text)

\* default_conversion<T>::parse (generic) once stream >> value left x.
parse_generic_on(text, x) ==
    IF x.st.fail /\ ~x.st.eof THEN Thrown(Error("parse", parse_unknown))
    ELSE IF get_has_char(text, x.st) THEN Thrown(Error("parse", leftover))
    ELSE Value(x.value)

\* default_conversion<T>::parse, the generic fallback, for T = my_rational.
parse_generic(text) == parse_generic_on(text, extract_rational(text))

\* detail::parse<T>
parse(T, text) ==
    CASE T \in {"u8", "unsigned", "double"} -> parse_numeric(T, text)
      [] T = "char" -> parse_char(text)
      [] T = "string" -> parse_string(text)
      [] T = "rational" -> parse_generic(text)

----------------------------------------------------------------------------
(* Splitting *)

\* std::string_view::find: index of the first delim, 0 when there is none.
RECURSIVE Find(_, _, _)
Find(text, delim, i) ==
    IF i > Len(text) THEN 0
    ELSE IF text[i] = delim THEN i
    ELSE Find(text, delim, i + 1)

\* detail::split_consume once find returned p (0: npos).
split_at(text, p) ==
    IF p # 0
    THEN [thrown |-> FALSE, exc |-> NoError,
          token |-> SubSeq(text, 1, p - 1),
          text |-> SubSeq(text, p + 1, Len(text))]
    ELSE [thrown |-> FALSE, exc |-> NoError, token |-> text, text |-> <<>>]

\* Mutant: an empty text yields an empty token instead of an error.
split_consume_lenient(text, delim) == split_at(text, Find(text, delim, 1))

\* detail::split_consume: token is returned, text is what remains.
split_consume(text, delim) ==
    IF text = <<>>
    THEN [thrown |-> TRUE, exc |-> Error("format", missing_field),
          token |-> <<>>, text |-> text]
    ELSE split_at(text, Find(text, delim, 1))

\* The initializer list of detail::parse_record, evaluated left to right:
\* field i is split off (s) and converted (v) before field i + 1 is looked
\* at; acc holds the fields converted so far.
RECURSIVE parse_inits(_, _, _, _, _)
RECURSIVE parse_inits_split(_, _, _, _, _)
RECURSIVE parse_inits_converted(_, _, _, _, _, _)

\* Mutant: a failed conversion is reported only when nothing fails to its
\* right.
parse_inits_converted_late(v, text, delim, Ts, i, acc) ==
    IF v.thrown
    THEN The({IF r.thrown THEN r
              ELSE [thrown |-> TRUE, exc |-> v.exc, value |-> acc,
                    text |-> text] :
                 r \in {parse_inits(text, delim, Ts, i + 1, Append(acc, 0))}})
    ELSE parse_inits(text, delim, Ts, i + 1, Append(acc, v.value))

parse_inits_converted(v, text, delim, Ts, i, acc) ==
    IF v.thrown
    THEN [thrown |-> TRUE, exc |-> v.exc, value |-> acc, text |-> text]
    ELSE parse_inits(text, delim, Ts, i + 1, Append(acc, v.value))

\* Mutant: a last field of type string that finds no text is empty.
parse_inits_split_default(s, delim, Ts, i, acc) ==
    IF s.thrown /\ ~(i = Len(Ts) /\ Ts[i] = "string")
    THEN [thrown |-> TRUE, exc |-> s.exc, value |-> acc, text |-> s.text]
    ELSE The({parse_inits_converted(v, s.text, delim, Ts, i, acc) :
                 v \in {parse(Ts[i], s.token)}})

parse_inits_split(s, delim, Ts, i, acc) ==
    IF s.thrown
    THEN [thrown |-> TRUE, exc |-> s.exc, value |-> acc, text |-> s.text]
    ELSE The({parse_inits_converted(v, s.text, delim, Ts, i, acc) :
                 v \in {parse(Ts[i], s.token)}})

parse_inits(text, delim, Ts, i, acc) ==
    IF i > Len(Ts)
    THEN [thrown |-> FALSE, exc |-> NoError, value |-> acc, text |-> text]
    ELSE The({parse_inits_split(s, delim, Ts, i, acc) :
                 s \in {split_consume(text, delim)}})

\* Mutant: text left after the last field is ignored.
check_excess_lenient(r) ==
    IF r.thrown THEN Thrown(r.exc) ELSE Value(r.value)

\* detail::parse_record once the initializer list r was evaluated.
check_excess(r) ==
    IF r.thrown THEN Thrown(r.exc)
    ELSE IF r.text # <<>> THEN Thrown(Error("format", excess_field))
    ELSE Value(r.value)

\* detail::parse_record
detail_parse_record(text, delim, Ts) ==
    The({check_excess(r) : r \in {parse_inits(text, delim, Ts, 1, <<>>)}})

----------------------------------------------------------------------------
(* detail::line_reader *)

\* The text ends right after line k, with no newline.
ends_at(k) == k = Len(lines) /\ ~terminated

\* Mutant: a read after the end starts over at the first line.
getline_rewinding(inp, str) ==
    IF inp.bad
    THEN [ok |-> FALSE, inp |-> inp, str |-> str]
    ELSE IF inp.eof /\ Len(lines) > 0
    THEN [ok |-> TRUE, inp |-> [inp EXCEPT !.pos = 1, !.eof = FALSE],
          str |-> lines[1]]
    ELSE IF inp.pos + 1 = failAt
    THEN [ok |-> FALSE, inp |-> [inp EXCEPT !.bad = TRUE], str |-> <<>>]
    ELSE IF inp.pos = Len(lines)
    THEN [ok |-> FALSE, inp |-> [inp EXCEPT !.eof = TRUE], str |-> <<>>]
    ELSE [ok |-> TRUE,
          inp |-> [inp EXCEPT !.pos = @ + 1, !.eof = ends_at(inp.pos + 1)],
          str |-> lines[inp.pos + 1]]

\* std::getline(_input, _line) on the stream state inp with buffer str: on
\* a stream that is not good the sentry fails and the buffer is left alone;
\* otherwise the buffer is erased and filled up to the next newline, and
\* eofbit is set when the text ends before a newline is met (with failbit
\* when nothing was read).
getline(inp, str) ==
    IF inp.eof \/ inp.bad
    THEN [ok |-> FALSE, inp |-> inp, str |-> str]
    ELSE IF inp.pos + 1 = failAt
    THEN [ok |-> FALSE, inp |-> [inp EXCEPT !.bad = TRUE], str |-> <<>>]
    ELSE IF inp.pos = Len(lines)
    THEN [ok |-> FALSE, inp |-> [inp EXCEPT !.eof = TRUE], str |-> <<>>]
    ELSE [ok |-> TRUE,
          inp |-> [inp EXCEPT !.pos = @ + 1, !.eof = ends_at(inp.pos + 1)],
          str |-> lines[inp.pos + 1]]

\* Result of a line_reader or parser call: the reader and stream after it,
\* the value returned, the exception thrown (if any) and, as history, the
\* number of lines consume() handed out during the call.
Result(src, inp, r, e, n) ==
    [src |-> src, inp |-> inp, ret |-> r, exc |-> e, took |-> n]

nullopt == [has |-> FALSE, value |-> <<>>]
Some(v) == [has |-> TRUE, value |-> v]

\* Mutant: every failed read is taken for the end of the input.
ensure_line_read_any_end(src, g) ==
    IF ~g.ok
    THEN Result([src EXCEPT !.line = g.str], g.inp, FALSE, NoError, 0)
    ELSE Result([line |-> g.str,
                 line_number |-> src.line_number + 1,
                 available |-> TRUE],
                g.inp, TRUE, NoError, 0)

\* Mutant: a line that was read is not counted.
ensure_line_read_uncounted(src, g) ==
    IF ~g.ok
    THEN IF g.inp.eof
         THEN Result([src EXCEPT !.line = g.str], g.inp, FALSE, NoError, 0)
         ELSE Result([src EXCEPT !.line = g.str], g.inp, FALSE,
                     Error("io", io_unknown), 0)
    ELSE Result([line |-> g.str,
                 line_number |-> src.line_number,
                 available |-> TRUE],
                g.inp, TRUE, NoError, 0)

\* line_reader::ensure_line once std::getline returned g.
ensure_line_read(src, g) ==
    IF ~g.ok
    THEN IF g.inp.eof
         THEN Result([src EXCEPT !.line = g.str], g.inp, FALSE, NoError, 0)
         ELSE Result([src EXCEPT !.line = g.str], g.inp, FALSE,
                     Error("io", io_unknown), 0)
    ELSE Result([line |-> g.str,
                 line_number |-> src.line_number + 1,
                 available |-> TRUE],
                g.inp, TRUE, NoError, 0)

\* Mutant: the line number is advanced for a buffered line as well.
ensure_line_recount(src, inp) ==
    IF src.available
    THEN Result([src EXCEPT !.line_number = @ + 1], inp, TRUE, NoError, 0)
    ELSE ensure_line_read(src, getline(inp, src.line))

\* Mutant: a line is read even when one is buffered.
ensure_line_refill(src, inp) ==
    The({ensure_line_read(src, g) : g \in {getline(inp, src.line)}})

\* line_reader::ensure_line
ensure_line(src, inp) ==
    IF src.available THEN Result(src, inp, TRUE, NoError, 0)
    ELSE ensure_line_read(src, getline(inp, src.line))

\* Mutant: the line handed out stays available.
consume_ensured_keeping(e) ==
    IF e.exc.kind # "none" THEN Result(e.src, e.inp, nullopt, e.exc, 0)
    ELSE IF ~e.ret THEN Result(e.src, e.inp, nullopt, NoError, 0)
    ELSE Result(e.src, e.inp, Some(e.src.line), NoError, 1)

\* line_reader::consume once ensure_line returned e.
consume_ensured(e) ==
    IF e.exc.kind # "none" THEN Result(e.src, e.inp, nullopt, e.exc, 0)
    ELSE IF ~e.ret THEN Result(e.src, e.inp, nullopt, NoError, 0)
    ELSE Result([e.src EXCEPT !.available = FALSE], e.inp,
                Some(e.src.line), NoError, 1)

\* line_reader::consume
consume(src, inp) ==
    The({consume_ensured(e) : e \in {ensure_line(src, inp)}})

\* Mutant: the line looked at is not kept for the next call.
peek_ensured_dropping(e) ==
    IF e.exc.kind # "none" THEN Result(e.src, e.inp, nullopt, e.exc, 0)
    ELSE IF ~e.ret THEN Result(e.src, e.inp, nullopt, NoError, 0)
    ELSE Result([e.src EXCEPT !.available = FALSE], e.inp,
                Some(e.src.line), NoError, 0)

\* line_reader::peek once ensure_line returned e.
peek_ensured(e) ==
    IF e.exc.kind # "none" THEN Result(e.src, e.inp, nullopt, e.exc, 0)
    ELSE IF ~e.ret THEN Result(e.src, e.inp, nullopt, NoError, 0)
    ELSE Result(e.src, e.inp, Some(e.src.line), NoError, 0)

\* line_reader::peek
peek(src, inp) ==
    The({peek_ensured(e) : e \in {ensure_line(src, inp)}})

\* line_reader::line_number
line_number(src) == src.line_number

----------------------------------------------------------------------------
(* detail::parser *)

\* parser::skip_comment: one iteration is a peek (p) and, when the line is
\* empty or starts with prefix, a consume (c); n counts the lines consumed
\* by earlier iterations.
RECURSIVE skip_comment_loop(_, _, _, _)
RECURSIVE skip_comment_peeked(_, _, _)
RECURSIVE skip_comment_consumed(_, _, _)

\* Mutant: the loop ends after the first line it consumed.
skip_comment_consumed_once(c, prefix, n) ==
    Result(c.src, c.inp, TRUE, c.exc, n + c.took)

skip_comment_consumed(c, prefix, n) ==
    skip_comment_loop(c.src, c.inp, prefix, n + c.took)

skip_comment_peeked(p, prefix, n) ==
    IF p.exc.kind # "none" THEN Result(p.src, p.inp, FALSE, p.exc, n)
    ELSE IF ~p.ret.has THEN Result(p.src, p.inp, TRUE, NoError, n)
    ELSE IF p.ret.value = <<>> \/ Head(p.ret.value) = prefix
    THEN The({skip_comment_consumed(c, prefix, n) :
                 c \in {consume(p.src, p.inp)}})
    ELSE Result(p.src, p.inp, TRUE, NoError, n)

skip_comment_loop(src, inp, prefix, n) ==
    The({skip_comment_peeked(p, prefix, n) : p \in {peek(src, inp)}})

\* Mutant: the prefix is ignored, only empty lines are skipped.
skip_comment_empty_only(src, inp, prefix) ==
    skip_comment_loop(src, inp, NUL, 0)

\* Mutant: the prefix of the skip_comment call made just before is kept.
skip_comment_sticky(src, inp, prefix) ==
    skip_comment_loop(src, inp,
                      IF last.op = "skip_comment" THEN last.prefix ELSE prefix,
                      0)

\* parser::skip_comment
skip_comment(src, inp, prefix) == skip_comment_loop(src, inp, prefix, 0)

\* The loop of parser::parse_fields over the remaining text; s is what
\* split_consume returned in the current iteration.
RECURSIVE split_all(_, _, _)
RECURSIVE split_all_next(_, _, _)

split_all_next(s, delim, out) == split_all(s.text, delim, Append(out, s.token))

split_all(remain, delim, out) ==
    IF remain = <<>> THEN out
    ELSE The({split_all_next(s, delim, out) :
                 s \in {split_consume(remain, delim)}})

\* Mutant: the line is converted as a record before it is split.
parse_fields_typed(c, delim, out) ==
    IF c.exc.kind # "none"
    THEN [res |-> Result(c.src, c.inp, FALSE, c.exc, 0), fields |-> out]
    ELSE IF ~c.ret.has
    THEN [res |-> Result(c.src, c.inp, FALSE, NoError, 0), fields |-> out]
    ELSE [res |-> Result(c.src, c.inp,
              ~detail_parse_record(c.ret.value, delim, RecordT.fields).thrown,
              detail_parse_record(c.ret.value, delim, RecordT.fields).exc,
              c.took),
          fields |-> split_all(c.ret.value, delim, out)]

\* parser::parse_fields once consume returned c; out is the vector the
\* tokens are appended to and the result carries the vector after the call.
parse_fields_consumed(c, delim, out) ==
    IF c.exc.kind # "none"
    THEN [res |-> Result(c.src, c.inp, FALSE, c.exc, 0), fields |-> out]
    ELSE IF ~c.ret.has
    THEN [res |-> Result(c.src, c.inp, FALSE, NoError, 0), fields |-> out]
    ELSE [res |-> Result(c.src, c.inp, TRUE, NoError, c.took),
          fields |-> split_all(c.ret.value, delim, out)]

\* parser::parse_fields
parse_fields(src, inp, delim, out) ==
    The({parse_fields_consumed(c, delim, out) : c \in {consume(src, inp)}})

\* Mutant: a conversion failure is reported by returning false.
parse_record_try_quiet(c, r, rec) ==
    IF r.thrown
    THEN [res |-> Result(c.src, c.inp, FALSE, NoError, c.took),
          record |-> rec]
    ELSE [res |-> Result(c.src, c.inp, TRUE, NoError, c.took),
          record |-> r.value]

\* Mutant: the record is assigned whatever detail::parse_record did.
parse_record_try_assigning(c, r, rec) ==
    IF r.thrown
    THEN [res |-> Result(c.src, c.inp, FALSE,
                         [r.exc EXCEPT !.line = c.ret.value,
                                       !.line_number = line_number(c.src)],
                         c.took),
          record |-> r.value]
    ELSE [res |-> Result(c.src, c.inp, TRUE, NoError, c.took),
          record |-> r.value]

\* The try block of parser::parse_record: r is what detail::parse_record
\* returned or threw on the consumed line; a thrown error is stamped with
\* the line and the line number and rethrown, and rec is left as it was.
parse_record_try(c, r, rec) ==
    IF r.thrown
    THEN [res |-> Result(c.src, c.inp, FALSE,
                         [r.exc EXCEPT !.line = c.ret.value,
                                       !.line_number = line_number(c.src)],
                         c.took),
          record |-> rec]
    ELSE [res |-> Result(c.src, c.inp, TRUE, NoError, c.took),
          record |-> r.value]

\* parser::parse_record<Record> once consume returned c; rec is the
\* caller's record object and the result carries the object after the call.
parse_record_consumed(c, delim, T, rec) ==
    IF c.exc.kind # "none"
    THEN [res |-> Result(c.src, c.inp, FALSE, c.exc, 0), record |-> rec]
    ELSE IF ~c.ret.has
    THEN [res |-> Result(c.src, c.inp, FALSE, NoError, 0), record |-> rec]
    ELSE The({parse_record_try(c, r, rec) :
                 r \in {detail_parse_record(c.ret.value, delim, T.fields)}})

\* parser::parse_record<Record>
parse_record(src, inp, delim, T, rec) ==
    The({parse_record_consumed(c, delim, T, rec) : c \in {consume(src, inp)}})

----------------------------------------------------------------------------
(* Validation *)

\* tsv::check
check(pred, message) ==
    IF ~pred THEN Error("validation", message) ELSE NoError

\* my_record::validate after its first check returned or threw e.
record_validate_value(e, rec) ==
    IF e.kind # "none" THEN e
    ELSE check(NonNegative(rec[3]), value_message)

\* The validate() member of my_record, the record type of the
\* documentation: check(row < column, ...), then check(value >= 0, ...).
record_validate(rec) ==
    record_validate_value(
        check(NumeralLess(rec[1], rec[2]), validation_message), rec)

\* Mutant: the hook is never called.
validate_skipped(T, rec) == NoError

\* detail::validate: calls the hook when the record type has one.
validate(T, rec) ==
    IF T.validate THEN record_validate(rec) ELSE NoError

----------------------------------------------------------------------------
(* Initial states *)

\* A record object whose fields have not been assigned.
Uninit == <<>>

Options == [delimiter : Delimiters, header : BOOLEAN, comment : Prefixes]

InitCommon ==
    /\ RecordT \in RecordTypes
    /\ _input = [pos |-> 0, eof |-> FALSE, bad |-> FALSE]
    /\ _source = [line |-> <<>>, line_number |-> 0, available |-> FALSE]
    /\ records = <<>>
    /\ record = Uninit
    /\ fields = <<>>
    /\ ret = [ok |-> FALSE, value |-> <<>>]
    /\ err = NoError
    /\ last = [op |-> "none", avail |-> FALSE, prefix |-> NUL, before |-> NUL,
               took |-> 0]
    /\ taken = 0
    /\ consumedBy = <<>>
    /\ validated = 0

\* tsv::load<Record>(input, opts) has just constructed its parser.
Init ==
    /\ InitCommon
    /\ lines \in Inputs
    /\ terminated \in Endings(lines)
    /\ failAt = 0
    /\ opts \in Options
    /\ _delim = opts.delimiter
    /\ pc = "start"

\* Inputs of the streams that may go bad.
FaultInputs == SeqsUpTo(ShortLines, MaxLines)

\* A load call, or a parser called directly, on a stream that goes bad at
\* some read (failAt 0: the stream stays good up to its end).
InitFault ==
    /\ InitCommon
    /\ lines \in FaultInputs
    /\ terminated \in Endings(lines)
    /\ failAt \in 0..(Len(lines) + 1)
    /\ opts \in Options
    /\ _delim = opts.delimiter
    /\ pc \in {"start", "parser"}
    /\ pc = "parser" =>
          /\ opts.header
          /\ opts.comment = NUL
          /\ RecordT = [fields |-> <<"u8", "u8">>, validate |-> FALSE]

\* A detail::parser constructed on the input and called directly.
InitParser ==
    /\ InitCommon
    /\ lines \in ParserInputs
    /\ terminated \in Endings(lines)
    /\ failAt = 0
    /\ opts \in {o \in Options : o.header /\ o.comment = NUL}
    /\ _delim \in Delimiters
    /\ pc = "parser"

----------------------------------------------------------------------------
(* Steps of tsv::load *)

\* The part every call shares: the reader and the stream after the call and
\* the history of what was called (before: the prefix given to the call
\* made just before this one, NUL when that call took no prefix).
Called(r, op, prefix) ==
    /\ _source' = r.src
    /\ _input' = r.inp
    /\ taken' = taken + r.took
    /\ last' = [op |-> op, avail |-> _source.available, prefix |-> prefix,
                before |-> last.prefix, took |-> r.took]

Repeat(x, n) == [i \in 1..n |-> x]

\* load after a skip_comment call that returned r; to is the next step.
LoadSkipped(r, to) ==
    /\ Called(r, "skip_comment", opts.comment)
    /\ consumedBy' = consumedBy \o Repeat("skip_comment", r.took)
    /\ err' = r.exc
    /\ ret' = [ok |-> r.ret, value |-> <<>>]
    /\ pc' = IF r.exc.kind # "none" THEN "failed" ELSE to

\* parser.skip_comment(opts.comment) before the header.
LoadSkipFirst ==
    /\ pc = "start"
    /\ \E r \in {skip_comment(_source, _input, opts.comment)} :
          LoadSkipped(r, IF opts.header THEN "header" ELSE "skip")
    /\ UNCHANGED <<lines, terminated, failAt, opts, RecordT, _delim, records, record,
                   fields, validated>>

\* Mutant: a missing header is tolerated.
LoadHeaderOptional(r) ==
    /\ Called(r.res, "parse_fields", NUL)
    /\ consumedBy' = consumedBy \o Repeat("parse_fields", r.res.took)
    /\ fields' = r.fields
    /\ ret' = [ok |-> r.res.ret, value |-> <<>>]
    /\ err' = r.res.exc
    /\ pc' = IF r.res.exc.kind # "none" THEN "failed" ELSE "skip"

\* load after parser.parse_fields(header) returned r: a missing header is
\* the format error missing_header.
LoadHeaderParsed(r) ==
    /\ Called(r.res, "parse_fields", NUL)
    /\ consumedBy' = consumedBy \o Repeat("parse_fields", r.res.took)
    /\ fields' = r.fields
    /\ ret' = [ok |-> r.res.ret, value |-> <<>>]
    /\ err' = IF r.res.exc.kind # "none" THEN r.res.exc
              ELSE IF ~r.res.ret THEN Error("format", missing_header)
              ELSE NoError
    /\ pc' = IF r.res.exc.kind # "none" \/ ~r.res.ret THEN "failed"
             ELSE "skip"

\* if (opts.header) { parser.parse_fields(header) or throw missing_header }
LoadHeader ==
    /\ pc = "header"
    /\ \E r \in {parse_fields(_source, _input, _delim, <<>>)} :
          LoadHeaderParsed(r)
    /\ UNCHANGED <<lines, terminated, failAt, opts, RecordT, _delim, records, record,
                   validated>>

\* parser.skip_comment(opts.comment) at the top of the record loop.
LoadSkip ==
    /\ pc = "skip"
    /\ \E r \in {skip_comment(_source, _input, opts.comment)} :
          LoadSkipped(r, "parse")
    /\ UNCHANGED <<lines, terminated, failAt, opts, RecordT, _delim, records, record,
                   fields, validated>>

\* Mutant: a line that fails to parse is dropped and the loop goes on.
LoadParsedLenient(r) ==
    /\ Called(r.res, "parse_record", NUL)
    /\ consumedBy' = consumedBy \o Repeat("parse_record", r.res.took)
    /\ record' = r.record
    /\ err' = NoError
    /\ ret' = [ok |-> r.res.ret, value |-> <<>>]
    /\ pc' = IF r.res.exc.kind # "none" THEN "skip"
             ELSE IF ~r.res.ret THEN "done"
             ELSE "validate"

\* Mutant: the loop goes on after parse_record returned false.
LoadParsedUnending(r) ==
    /\ Called(r.res, "parse_record", NUL)
    /\ consumedBy' = consumedBy \o Repeat("parse_record", r.res.took)
    /\ record' = r.record
    /\ err' = r.res.exc
    /\ ret' = [ok |-> r.res.ret, value |-> <<>>]
    /\ pc' = IF r.res.exc.kind # "none" THEN "failed"
             ELSE IF ~r.res.ret THEN "skip"
             ELSE "validate"

\* load after parser.parse_record(record) returned r: false ends the loop,
\* an exception ends load.
LoadParsed(r) ==
    /\ Called(r.res, "parse_record", NUL)
    /\ consumedBy' = consumedBy \o Repeat("parse_record", r.res.took)
    /\ record' = r.record
    /\ err' = r.res.exc
    /\ ret' = [ok |-> r.res.ret, value |-> <<>>]
    /\ pc' = IF r.res.exc.kind # "none" THEN "failed"
             ELSE IF ~r.res.ret THEN "done"
             ELSE "validate"

\* Record record; if (!parser.parse_record<Record>(record)) break;
LoadParse ==
    /\ pc = "parse"
    /\ \E r \in {parse_record(_source, _input, _delim, RecordT, Uninit)} :
          LoadParsed(r)
    /\ UNCHANGED <<lines, terminated, failAt, opts, RecordT, _delim, records, fields,
                   validated>>

\* load after detail::validate(record) returned or threw e.
LoadValidated(e) ==
    /\ err' = e
    /\ pc' = IF e.kind # "none" THEN "failed" ELSE "append"

\* detail::validate(record);
LoadValidate ==
    /\ pc = "validate"
    /\ LoadValidated(validate(RecordT, record))
    /\ validated' = IF RecordT.validate THEN validated + 1 ELSE validated
    /\ UNCHANGED <<lines, terminated, failAt, opts, RecordT, _input, _source, _delim,
                   records, record, fields, ret, last, taken, consumedBy>>

\* The record a move construction leaves behind: a std::string member is
\* left empty, a member of any other field type keeps its value.
moved_from(T, rec) ==
    [i \in 1..Len(rec) |-> IF T.fields[i] = "string" THEN <<>> ELSE rec[i]]

\* Mutant: the record is inserted at the front.
LoadAppendFront ==
    /\ pc = "append"
    /\ records' = <<record>> \o records
    /\ record' = moved_from(RecordT, record)
    /\ pc' = "skip"
    /\ UNCHANGED <<lines, terminated, failAt, opts, RecordT, _input, _source, _delim,
                   fields, ret, err, last, taken, consumedBy, validated>>

\* records.push_back(std::move(record));
LoadAppend ==
    /\ pc = "append"
    /\ records' = Append(records, record)
    /\ record' = moved_from(RecordT, record)
    /\ pc' = "skip"
    /\ UNCHANGED <<lines, terminated, failAt, opts, RecordT, _input, _source, _delim,
                   fields, ret, err, last, taken, consumedBy, validated>>

Next ==
    \/ LoadSkipFirst
    \/ LoadHeader
    \/ LoadSkip
    \/ LoadParse
    \/ LoadValidate
    \/ LoadAppend

Spec == Init /\ [][Next]_vars


----------------------------------------------------------------------------
(* Direct calls on a detail::parser and on its line_reader *)

ParserFrame ==
    UNCHANGED <<lines, terminated, failAt, opts, RecordT, _delim, pc, records,
                consumedBy, validated>>

\* A line_reader call (peek or consume) returned r.
ReaderReturned(r, op) ==
    /\ Called(r, op, NUL)
    /\ ret' = [ok |-> r.ret.has, value |-> r.ret.value]
    /\ err' = r.exc

CallPeek ==
    /\ pc = "parser"
    /\ ReaderReturned(peek(_source, _input), "peek")
    /\ UNCHANGED <<record, fields>>
    /\ ParserFrame

CallConsume ==
    /\ pc = "parser"
    /\ ReaderReturned(consume(_source, _input), "consume")
    /\ UNCHANGED <<record, fields>>
    /\ ParserFrame

\* skip_comment(prefix) returned r.
SkipCommentReturned(r, prefix) ==
    /\ Called(r, "skip_comment", prefix)
    /\ ret' = [ok |-> r.ret, value |-> <<>>]
    /\ err' = r.exc

CallSkipComment ==
    /\ pc = "parser"
    /\ \E prefix \in Prefixes :
          SkipCommentReturned(skip_comment(_source, _input, prefix), prefix)
    /\ UNCHANGED <<record, fields>>
    /\ ParserFrame

\* parse_fields(fields) returned r.
ParseFieldsReturned(r) ==
    /\ Called(r.res, "parse_fields", NUL)
    /\ fields' = r.fields
    /\ ret' = [ok |-> r.res.ret, value |-> <<>>]
    /\ err' = r.res.exc

CallParseFields ==
    /\ pc = "parser"
    /\ ParseFieldsReturned(parse_fields(_source, _input, _delim, <<>>))
    /\ UNCHANGED record
    /\ ParserFrame

\* parse_record(record) returned r.
ParseRecordReturned(r) ==
    /\ Called(r.res, "parse_record", NUL)
    /\ record' = r.record
    /\ ret' = [ok |-> r.res.ret, value |-> <<>>]
    /\ err' = r.res.exc

CallParseRecord ==
    /\ pc = "parser"
    /\ ParseRecordReturned(
          parse_record(_source, _input, _delim, RecordT, record))
    /\ UNCHANGED fields
    /\ ParserFrame

NextParser ==
    \/ CallPeek
    \/ CallConsume
    \/ CallSkipComment
    \/ CallParseFields
    \/ CallParseRecord

SpecParser == InitParser /\ [][NextParser]_vars

\* Both ways of using the library, on streams that may go bad.
NextFault ==
    \/ Next
    \/ NextParser

SpecFault == InitFault /\ [][NextFault]_vars

----------------------------------------------------------------------------
(* Direct calls of tsv::conversion<T>::parse on one token *)

\* Digits that reach both sides of the largest "u8" value, and the
\* characters my_rational tokens are made of.
TokenChars == {"2", "5", "6", SLASH, "x", SPACE, MINUS}

Tokens == SeqsUpTo(TokenChars, MaxLineLen)

FieldTypes == {"u8", "char", "string", "rational"}

\* What reading an int that was never assigned may give: any int, whatever
\* the storage of the object held before.
Garbage == IntMin..IntMax

\* The values a read of an int object may give.
Outcomes(x) == IF x.known THEN {x.v} ELSE Garbage

\* The objects the caller may find in a returned value: a my_rational whose
\* members were not all assigned shows any int in each of those members.
Resolved(T, v) ==
    IF T = "rational"
    THEN [numerator : Outcomes(v.numerator),
          denominator : Outcomes(v.denominator)]
    ELSE {v}

\* The token is lines[1] and the field type is the only field of RecordT.
InitConvert ==
    /\ lines \in {<<t>> : t \in Tokens}
    /\ terminated = TRUE
    /\ RecordT \in {[fields |-> <<T>>, validate |-> FALSE] : T \in FieldTypes}
    /\ failAt = 0
    /\ opts \in {o \in Options : o.header /\ o.comment = NUL}
    /\ _delim = opts.delimiter
    /\ _input = [pos |-> 0, eof |-> FALSE, bad |-> FALSE]
    /\ _source = [line |-> <<>>, line_number |-> 0, available |-> FALSE]
    /\ records = <<>>
    /\ record = Uninit
    /\ fields = <<>>
    /\ ret = [ok |-> FALSE, value |-> <<>>]
    /\ err = NoError
    /\ last = [op |-> "none", avail |-> FALSE, prefix |-> NUL, before |-> NUL,
               took |-> 0]
    /\ taken = 0
    /\ consumedBy = <<>>
    /\ validated = 0
    /\ pc = "convert"

\* conversion<T>::parse(text) returned or threw r.  A returned my_rational
\* is kept as the extraction left it, member by member assigned or not:
\* the ints a member that was not assigned may show are too many to be
\* told apart in the state, and Resolved gives them.
ParseReturned(T, r) ==
    /\ err' = r.exc
    /\ ret' = [ok |-> ~r.thrown, value |-> <<>>]
    /\ record' = IF r.thrown THEN record ELSE <<r.value>>
    /\ last' = [last EXCEPT !.op = "parse"]
    /\ pc' = "converted"

CallParse ==
    /\ pc = "convert"
    /\ ParseReturned(RecordT.fields[1], parse(RecordT.fields[1], lines[1]))
    /\ UNCHANGED <<lines, terminated, failAt, opts, RecordT, _input, _source, _delim,
                   records, fields, taken, consumedBy, validated>>

NextConvert == CallParse

SpecConvert == InitConvert /\ [][NextConvert]_vars

----------------------------------------------------------------------------
(* Instantiations of record_size_v<Record> and field_type_list<Record> *)

\* A field type for each position of a long aggregate.
FieldTypeAt(i) ==
    CASE i % 4 = 1 -> "u8"
      [] i % 4 = 2 -> "string"
      [] i % 4 = 3 -> "char"
      [] i % 4 = 0 -> "rational"

\* Flat aggregates: every choice of up to three fields, and one aggregate
\* of each size up to MaxFields.
Aggregates ==
    SeqsUpTo(FieldTypes, 3)
        \cup {[i \in 1..n |-> FieldTypeAt(i)] : n \in 0..MaxFields}

InitReflect ==
    /\ lines = <<>>
    /\ terminated = TRUE
    /\ RecordT \in {[fields |-> Ts, validate |-> FALSE] : Ts \in Aggregates}
    /\ failAt = 0
    /\ opts \in {o \in Options : o.header /\ o.comment = NUL}
    /\ _delim = opts.delimiter
    /\ _input = [pos |-> 0, eof |-> FALSE, bad |-> FALSE]
    /\ _source = [line |-> <<>>, line_number |-> 0, available |-> FALSE]
    /\ records = <<>>
    /\ record = Uninit
    /\ fields = <<>>
    /\ ret = [ok |-> FALSE, value |-> <<>>]
    /\ err = NoError
    /\ last = [op |-> "none", avail |-> FALSE, prefix |-> NUL, before |-> NUL,
               took |-> 0]
    /\ taken = 0
    /\ consumedBy = <<>>
    /\ validated = 0
    /\ pc = "reflect"

\* record_size_v<Record> is instantiated: ret.value is the size.
InstantiateSize ==
    /\ pc = "reflect"
    /\ ret' = [ok |-> TRUE, value |-> record_size_v(RecordT.fields)]
    /\ last' = [last EXCEPT !.op = "record_size_v"]
    /\ pc' = "sized"
    /\ UNCHANGED <<lines, terminated, failAt, opts, RecordT, _input, _source, _delim,
                   records, record, fields, err, taken, consumedBy,
                   validated>>

\* field_type_list<Record> is instantiated: fields is the type list, and
\* ret.ok tells whether the instantiation is well-formed.
InstantiateTypeList ==
    /\ pc = "sized"
    /\ ret' = [ret EXCEPT !.ok = field_type_list(RecordT.fields).ok]
    /\ fields' = field_type_list(RecordT.fields).types
    /\ last' = [last EXCEPT !.op = "field_type_list"]
    /\ pc' = "reflected"
    /\ UNCHANGED <<lines, terminated, failAt, opts, RecordT, _input, _source, _delim,
                   records, record, err, taken, consumedBy, validated>>

NextReflect ==
    \/ InstantiateSize
    \/ InstantiateTypeList

SpecReflect == InitReflect /\ [][NextReflect]_vars

----------------------------------------------------------------------------
(* What the input is, stated on the lines themselves *)

\* A line load must skip: empty, or starting with the comment prefix.
IsSkipped(line, prefix) == line = <<>> \/ line[1] = prefix

\* Indices of the lines from i on that are not skipped, in input order.
RECURSIVE KeptFrom(_, _)
KeptFrom(i, prefix) ==
    IF i > Len(lines) THEN <<>>
    ELSE IF IsSkipped(lines[i], prefix) THEN KeptFrom(i + 1, prefix)
    ELSE <<i>> \o KeptFrom(i + 1, prefix)

Kept == KeptFrom(1, opts.comment)

\* Index of the header line (0: there is none) and of the data lines.
HeaderIdx == IF opts.header /\ Kept # <<>> THEN Kept[1] ELSE 0
DataIdx == IF opts.header /\ Kept # <<>> THEN Tail(Kept) ELSE Kept

Range(f) == {f[i] : i \in DOMAIN f}

\* The record line i parses to, or the error it raises.
ParsedFrom(i) == detail_parse_record(lines[i], _delim, RecordT.fields)

\* Lines consumed so far by a given step.
ConsumedBy(op) == {i \in 1..Len(consumedBy) : consumedBy[i] = op}

----------------------------------------------------------------------------
(* Properties of tsv::load *)

\* C1: when load succeeds the returned sequence holds exactly one record
\* per line that is neither skipped nor the header, the k-th record being
\* the one parsed from the k-th such line.
C1_RecordsAreDataLines ==
    pc = "done" =>
        /\ Len(records) = Len(DataIdx)
        /\ \A k \in 1..Len(DataIdx) :
              /\ ~ParsedFrom(DataIdx[k]).thrown
              /\ records[k] = ParsedFrom(DataIdx[k]).value

C1_Witness ==
    /\ pc = "done"
    /\ Len(lines) = 3
    /\ Len(records) = 2
    /\ records[1] # records[2]

\* C2: with the header enabled exactly one line is consumed by the header
\* step, the first line that is not skipped; it never makes load fail and
\* never becomes a record, and the record step takes exactly the
\* non-skipped lines after it.
C2_HeaderConsumedOnce ==
    opts.header =>
        /\ \A i \in 1..Len(consumedBy) :
              /\ consumedBy[i] = "parse_fields" <=> i = HeaderIdx
              /\ consumedBy[i] = "parse_record" <=> i \in Range(DataIdx)
        /\ (pc = "failed" /\ Kept # <<>>) => taken > HeaderIdx
        /\ (pc \notin {"start", "header", "failed"}) => taken >= HeaderIdx
        /\ Len(records) <= Cardinality(ConsumedBy("parse_record"))

C2_Witness ==
    /\ opts.header
    /\ pc = "done"
    /\ HeaderIdx = 2
    /\ ParsedFrom(HeaderIdx).thrown
    /\ Len(records) = 1

\* C3: when every line of the input is skipped (or there is none), load
\* with the header enabled fails with the format error "header is expected
\* but not seen" and never returns; with the header disabled it never
\* fails and returns the empty sequence.
C3_MissingHeader ==
    Kept = <<>> =>
        /\ opts.header =>
              /\ pc \in {"start", "header", "failed"}
              /\ pc = "failed" => err = Error("format", missing_header)
        /\ ~opts.header =>
              /\ pc \in {"start", "skip", "parse", "done"}
              /\ records = <<>>
              /\ err = NoError

C3_Witness ==
    /\ Kept = <<>>
    /\ Len(lines) >= 2
    /\ opts.header
    /\ pc = "failed"
    /\ err.what = missing_header

\* C4: a line that is empty or starts with the comment prefix is consumed
\* by skip_comment only, never by the header step or the record step,
\* wherever it stands in the input.
C4_SkippedLinesOnlySkipped ==
    /\ Len(consumedBy) = taken
    /\ \A i \in 1..Len(consumedBy) :
          IsSkipped(lines[i], opts.comment) => consumedBy[i] = "skip_comment"

C4_Witness ==
    \E i \in 2..Len(consumedBy) :
        /\ IsSkipped(lines[i], opts.comment)
        /\ lines[i] # <<>>
        /\ consumedBy[i - 1] = "parse_record"
        /\ consumedBy[i] = "skip_comment"

----------------------------------------------------------------------------
(* Properties of error reporting *)

\* C5: an error raised while parse_record converts a line reaches the
\* caller with the kind and message it was raised with, the full text of
\* that line and the line's 1-based position among all lines of the input,
\* whether or not the line had been peeked before.
C5_ParseErrorCarriesLine ==
    (last.op = "parse_record" /\ last.took = 1) =>
        LET d == ParsedFrom(taken)
        IN  /\ d.thrown =>
                  /\ ~ret.ok
                  /\ err.kind \in {"format", "parse"}
                  /\ err.kind = d.exc.kind
                  /\ err.what = d.exc.what
                  /\ err.line = lines[taken]
                  /\ err.line_number = taken
            /\ ~d.thrown => err = NoError

C5_Witness ==
    /\ last.op = "parse_record"
    /\ last.took = 1
    /\ last.avail
    /\ err.kind = "parse"
    /\ err.line_number = 2
    /\ err.line # <<>>

\* C6: a validation error that ends load carries the text and the number
\* of the line the rejected record was parsed from.
C6_ValidationErrorCarriesLine ==
    (pc = "failed" /\ err.kind = "validation") =>
        /\ err.line = lines[taken]
        /\ err.line_number = taken

\* The rule of the validate() hook, stated on a record: row < column and
\* value >= 0.
Accepted(rec) == NumeralLess(rec[1], rec[2]) /\ NonNegative(rec[3])

\* The message a rejected record is refused with: that of the first check
\* of the hook that fails.
Refusal(rec) ==
    IF ~NumeralLess(rec[1], rec[2]) THEN validation_message
    ELSE value_message

\* C7: with a validate hook, load calls it once per parsed record, after
\* the parse and before the append, with no line read in between; a
\* rejected record ends load with the validation error and is in no
\* result.  Without the hook nothing is validated and every parsed record
\* is appended.
C7_ValidateOncePerRecord ==
    /\ RecordT.validate =>
          /\ validated = Len(records)
                + (IF pc = "append" \/ (pc = "failed" /\ err.kind = "validation")
                   THEN 1 ELSE 0)
          /\ \A k \in 1..Len(records) : Accepted(records[k])
          /\ (pc = "failed" /\ err.kind = "validation") =>
                /\ err.what = Refusal(ParsedFrom(taken).value)
                /\ ~ParsedFrom(taken).thrown
                /\ record = ParsedFrom(taken).value
                /\ ~Accepted(record)
          /\ pc = "append" => Accepted(record)
    /\ ~RecordT.validate =>
          /\ validated = 0
          /\ err.kind # "validation"
    /\ pc \in {"validate", "append"} =>
          /\ _input.pos = taken
          /\ ~_source.available
          /\ ~ParsedFrom(taken).thrown
          /\ record = ParsedFrom(taken).value
          /\ Len(records) = Cardinality(ConsumedBy("parse_record")) - 1
    /\ pc \in {"skip", "parse", "done"} =>
          Len(records) = Cardinality(ConsumedBy("parse_record"))

C7_Witness ==
    /\ RecordT.validate
    /\ pc = "failed"
    /\ err.kind = "validation"
    /\ err.what = value_message
    /\ Len(records) = 1
    /\ validated = 2

\* A data line load cannot accept: it does not parse, or its record is
\* rejected by the hook.
IsBad(i) ==
    \/ ParsedFrom(i).thrown
    \/ RecordT.validate /\ ~Accepted(ParsedFrom(i).value)

BadData == {i \in Range(DataIdx) : IsBad(i)}

Least(S) == CHOOSE i \in S : \A j \in S : i <= j

\* The error the line i is rejected with (kind and message).
Rejection(i) ==
    IF ParsedFrom(i).thrown
    THEN <<ParsedFrom(i).exc.kind, ParsedFrom(i).exc.what>>
    ELSE <<"validation", Refusal(ParsedFrom(i).value)>>

\* C8: the first data line that fails to parse or validate ends load with
\* that error; the stream is never read past it, and load never returns
\* when a data line is malformed.
C8_FirstFailureAborts ==
    LET bad == BadData
        first == Least(bad)
    IN  /\ pc = "done" => bad = {}
        /\ bad # {} =>
              /\ taken <= first
              /\ _input.pos <= first
              /\ Len(records)
                    <= Cardinality({i \in Range(DataIdx) : i < first})
              /\ pc = "failed" =>
                    /\ taken = first
                    /\ _input.pos = first
                    /\ <<err.kind, err.what>> = Rejection(first)
        /\ (pc = "failed" /\ err.what # missing_header) => bad # {}

C8_Witness ==
    /\ pc = "failed"
    /\ err.kind = "parse"
    /\ Len(records) = 1
    /\ taken = 2
    /\ Len(lines) = 3
    /\ ~IsBad(3)

----------------------------------------------------------------------------
(* Properties of parser::parse_record on one line *)

\* Positions of the delimiters of text, and the segments they separate.
DelimPos(text, delim) == {i \in 1..Len(text) : text[i] = delim}

NumSegments(text, delim) == Cardinality(DelimPos(text, delim)) + 1

\* End of the k-th segment: the k-th delimiter, or the end of the text.
SegmentEnd(text, delim, k) ==
    IF k = 0 THEN 0
    ELSE IF k > Cardinality(DelimPos(text, delim)) THEN Len(text) + 1
    ELSE CHOOSE p \in DelimPos(text, delim) :
            Cardinality({q \in DelimPos(text, delim) : q < p}) = k - 1

Segment(text, delim, k) ==
    SubSeq(text, SegmentEnd(text, delim, k - 1) + 1,
                 SegmentEnd(text, delim, k) - 1)

\* The line the last parse_record call consumed.
TheLine == lines[taken]

Arity == Len(RecordT.fields)

\* The call just made is a parse_record that consumed a line.
ParsedALine == last.op = "parse_record" /\ last.took = 1

\* Segments of a line with too few of them that parse_record converts: all
\* but an empty last one.
Converted(i) ==
    \/ i < NumSegments(TheLine, _delim)
    \/ Segment(TheLine, _delim, i) # <<>>

Unconvertible ==
    {i \in 1..NumSegments(TheLine, _delim) :
        /\ i <= Arity
        /\ Converted(i)
        /\ parse(RecordT.fields[i], Segment(TheLine, _delim, i)).thrown}

FirstUnconvertible == Least(Unconvertible)

\* C9 as stated: a line with fewer than N segments always fails with the
\* format error "insufficient number of fields".
C9_FewSegmentsIsFormatError ==
    (ParsedALine /\ Arity >= 1 /\ NumSegments(TheLine, _delim) < Arity) =>
        /\ ~ret.ok
        /\ err.kind = "format"
        /\ err.what = missing_field

\* C9 amended: a line with fewer than N segments never parses; it fails
\* with "insufficient number of fields" when every segment that is
\* converted is valid for its field, and with the parse error of the
\* leftmost invalid one otherwise.
C9_FewSegmentsNeverParse ==
    (ParsedALine /\ Arity >= 1 /\ NumSegments(TheLine, _delim) < Arity) =>
        /\ ~ret.ok
        /\ IF Unconvertible = {}
           THEN err.kind = "format" /\ err.what = missing_field
           ELSE /\ err.kind = "parse"
                /\ err.what =
                      parse(RecordT.fields[FirstUnconvertible],
                            Segment(TheLine, _delim, FirstUnconvertible)).exc.what
        /\ err.line = TheLine

C9_Witness ==
    /\ ParsedALine
    /\ Arity = 3
    /\ NumSegments(TheLine, _delim) = 2
    /\ Segment(TheLine, _delim, 1) = <<>>
    /\ Segment(TheLine, _delim, 2) # <<>>
    /\ err.kind = "format"
    /\ err.what = missing_field

\* C10: a line made of N valid field tokens followed by a delimiter and
\* anything more (possibly nothing) is rejected with an error.
C10_TrailingTextRejected ==
    (/\ ParsedALine
     /\ Arity >= 1
     /\ NumSegments(TheLine, _delim) > Arity
     /\ \A i \in 1..Arity :
           ~parse(RecordT.fields[i], Segment(TheLine, _delim, i)).thrown) =>
        /\ ~ret.ok
        /\ err.kind # "none"

----------------------------------------------------------------------------
(* Properties of parser::parse_fields *)

\* The call just made is a parse_fields that consumed a line.
SplitALine == last.op = "parse_fields" /\ last.took = 1

\* The delimiter-separated segments of text, left to right.
Segments(text, delim) ==
    [k \in 1..NumSegments(text, delim) |-> Segment(text, delim, k)]

\* C11: parse_fields on a non-empty line with k delimiters appends exactly
\* the k + 1 segments between delimiters and line boundaries, in order,
\* empty ones included.
C11_FieldsAreSegments ==
    (SplitALine /\ TheLine # <<>>) =>
        /\ ret.ok
        /\ fields = Segments(TheLine, _delim)

----------------------------------------------------------------------------
(* Properties of detail::line_reader *)

\* Number of lines the reader holds that consume() has not handed out yet.
Buffered == IF _source.available THEN 1 ELSE 0

\* C12 as stated: line_number() is the number of lines consume() has
\* returned so far, so a peek never changes it.
C12_LineNumberCountsConsumed == line_number(_source) = taken

\* C12 amended: line_number() is the number of lines read from the stream,
\* that is the lines consume() has returned plus the one a lookahead holds;
\* right after a consume() that returned a line it is the number of lines
\* consumed.
C12_LineNumberCountsRead ==
    /\ line_number(_source) = taken + Buffered
    /\ line_number(_source) = _input.pos
    /\ (last.op = "consume" /\ ret.ok) => line_number(_source) = taken
    /\ (last.op = "consume" /\ ~ret.ok) => last.took = 0
    /\ (last.op = "peek" /\ last.avail) => last.took = 0 /\ Buffered = 1

C12_Witness ==
    /\ last.op = "peek"
    /\ last.avail
    /\ taken = 1
    /\ line_number(_source) = 2

\* A peek() step, and a peek() or consume() step that follows a peek().
PeekStep == last'.op = "peek"

AfterPeekStep == last.op = "peek" /\ last'.op \in {"peek", "consume"}

\* C13: a peek() consumes nothing and returns the line after the lines
\* consumed so far; the peek() or consume() that follows a peek() returns
\* what that peek() returned.
C13_PeekIdempotent ==
    [][/\ PeekStep =>
             /\ taken' = taken
             /\ ret'.ok = (taken < Len(lines))
             /\ ret'.ok => ret'.value = lines[taken + 1]
       /\ AfterPeekStep =>
             /\ ret' = ret
             /\ taken' = taken + (IF last'.op = "consume" /\ ret.ok
                                  THEN 1 ELSE 0)]_vars

C13_Witness ==
    /\ last.op = "consume"
    /\ last.avail
    /\ ret.ok
    /\ ret.value # <<>>
    /\ taken = 2
    /\ Len(lines) = 3

\* A consume() step, and a step made of one line_reader call.
ConsumeStep == last'.op = "consume"

ReaderStep == last'.op \in {"peek", "consume"}

\* C14: the k-th consume() that returns a line returns line k of the input
\* and consume() signals the end exactly when every line was returned; the
\* stream is read only by a call that has no line at hand, one line per
\* call, and it is never ahead of the consumer by more than the one line
\* the lookahead holds.
C14_ConsumeYieldsInput ==
    [][/\ ConsumeStep =>
             IF taken < Len(lines)
             THEN /\ ret'.ok
                  /\ ret'.value = lines[taken + 1]
                  /\ taken' = taken + 1
             ELSE /\ ~ret'.ok
                  /\ taken' = taken
       /\ ReaderStep =>
             /\ _input'.pos \in {_input.pos, _input.pos + 1}
             /\ _input'.pos = _input.pos + 1 => ~_source.available
       /\ _input'.pos >= _input.pos
       /\ _input'.pos = taken' + (IF _source'.available THEN 1 ELSE 0)
       /\ _input'.pos <= Len(lines)]_vars

C14_Witness ==
    /\ last.op = "consume"
    /\ ~ret.ok
    /\ _input.eof
    /\ taken = 3
    /\ Len(lines) = 3
    /\ lines[1] # lines[2]

----------------------------------------------------------------------------
(* Properties of parser::skip_comment and parser::parse_record *)

\* The call just made is a skip_comment that returned.
Skipped == last.op = "skip_comment" /\ err.kind = "none"

\* Number of lines consumed before the last call was made.
TakenBefore == taken - last.took

\* Lines after the first n that skip_comment(prefix) does not skip.
Stops(n, prefix) ==
    {j \in (n + 1)..Len(lines) : ~IsSkipped(lines[j], prefix)}

\* C15: after skip_comment(prefix) every line before the first non-empty
\* line not starting with prefix is consumed and that line is the next one,
\* loaded and not consumed; when there is no such line the input is
\* exhausted.
C15_SkipStopsAtFirstContent ==
    Skipped =>
        LET stops == Stops(TakenBefore, last.prefix)
            first == Least(stops)
        IN  /\ ret.ok
            /\ IF stops = {}
               THEN /\ taken = Len(lines)
                    /\ ~_source.available
                    /\ _input.eof
               ELSE /\ taken = first - 1
                    /\ _source.available
                    /\ _source.line = lines[first]
                    /\ _input.pos = first

C15_Witness ==
    /\ Skipped
    /\ last.prefix = HASH
    /\ TakenBefore = 0
    /\ last.took = 2
    /\ lines[1] = <<HASH>>
    /\ lines[2] = <<>>
    /\ _source.available
    /\ _source.line = <<"1", TAB, "2">>

\* The call just made is a parse_record; it returned false.
ParseRecordCalled == last.op = "parse_record"

ReturnedFalse == ~ret.ok /\ err.kind = "none"

\* C16: parse_record returns false exactly when no line was left when it
\* was called; with a line left it consumes that line and either returns
\* true with the record converted from it or throws the conversion's error.
C16_FalseOnlyAtEnd ==
    ParseRecordCalled =>
        /\ ReturnedFalse <=> TakenBefore = Len(lines)
        /\ TakenBefore < Len(lines) =>
              /\ last.took = 1
              /\ LET d == ParsedFrom(taken)
                 IN  IF d.thrown
                     THEN /\ ~ret.ok
                          /\ err.kind \in {"format", "parse"}
                     ELSE /\ ret.ok
                          /\ err.kind = "none"
                          /\ record = d.value

C16_Witness ==
    /\ ParseRecordCalled
    /\ ReturnedFalse
    /\ Len(lines) = 2
    /\ taken = 2
    /\ record = <<1, 2>>

----------------------------------------------------------------------------
(* Properties of reading from a stream that may go bad *)

\* The call just made is a peek() or a consume(); it signalled the end.
ReaderCalled == last.op \in {"peek", "consume"}

SignalledEnd == ~ret.ok /\ err.kind = "none"

\* C17: peek() and consume() signal the end only when the stream is at its
\* end with every line handed out or buffered; once a read has failed for
\* another reason the call throws the I/O error, no line is available, the
\* line number is the number of lines read before the failure, and load
\* fails; load returns only after a clean end, with every line consumed.
C17_ReadFailureIsIoError ==
    /\ (ReaderCalled /\ SignalledEnd) =>
          /\ _input.eof
          /\ ~_input.bad
          /\ taken = Len(lines)
    /\ _input.bad =>
          /\ ~_input.eof
          /\ err.kind = "io"
          /\ err.what = io_unknown
          /\ ~ret.ok
          /\ ~_source.available
          /\ line_number(_source) = failAt - 1
          /\ taken = failAt - 1
          /\ pc \in {"failed", "parser"}
    /\ err.kind = "io" => _input.bad
    /\ pc = "done" =>
          /\ _input.eof
          /\ ~_input.bad
          /\ taken = Len(lines)
          /\ Len(records) = Len(DataIdx)

C17_Witness ==
    /\ pc = "failed"
    /\ err.kind = "io"
    /\ failAt = 2
    /\ Len(lines) = 3
    /\ Len(records) = 1
    /\ ~_input.eof

----------------------------------------------------------------------------
(* Properties of the conversions *)

\* A conversion was applied to the token; the field type it was for.
Converting(T) == pc = "converted" /\ RecordT.fields[1] = T

TheToken == lines[1]

\* What the stream extraction of the generic fallback did with the token:
\* it failed, or it left characters of the token unread.
ExtractionFailed == extract_rational(TheToken).st.fail

CharactersLeft == extract_rational(TheToken).st.pos < Len(TheToken)

\* C18: the generic fallback rejects with a parse error every token whose
\* extraction fails and every token with characters left after the
\* extraction, the empty token and truncated tokens included.
C18_FallbackRejectsFailures ==
    (Converting("rational") /\ (ExtractionFailed \/ CharactersLeft)) =>
        /\ ~ret.ok
        /\ err.kind = "parse"

\* Number of digits the token starts with.
LeadingDigits(t) ==
    Cardinality({k \in 1..Len(t) : \A i \in 1..k : t[i] \in Digits})

\* The number written by the first k characters of t.
RECURSIVE DecimalValue(_, _)
DecimalValue(t, k) ==
    IF k = 0 THEN 0 ELSE 10 * DecimalValue(t, k - 1) + DigitVal(t[k])

\* The conversion threw the parse error with this message.
ThrewParseError(what) ==
    /\ ~ret.ok
    /\ err.kind = "parse"
    /\ err.what = what

\* C19: the numeric conversion returns the number exactly when the whole
\* token is a number in range; a token that does not start with a number
\* is a 'parse error', a number beyond the range is 'value out of range',
\* and a number in range followed by more characters is 'excess
\* character(s) at the end of a field'.
C19_NumericErrorKinds ==
    Converting("u8") =>
        LET k == LeadingDigits(TheToken)
            v == DecimalValue(TheToken, k)
        IN  IF k = 0 THEN ThrewParseError(parse_unknown)
            ELSE IF v > NumMax("u8") THEN ThrewParseError(out_of_range)
            ELSE IF k < Len(TheToken) THEN ThrewParseError(leftover)
            ELSE /\ ret.ok
                 /\ err = NoError
                 /\ record = <<v>>

C19_Witness ==
    /\ Converting("u8")
    /\ TheToken = <<"2", "5", "5">>
    /\ ret.ok
    /\ record = <<255>>

----------------------------------------------------------------------------
(* Properties of the structure reflection *)

\* The record type's declared field types, in declaration order.
Declared == RecordT.fields

\* C20: for a flat aggregate with n <= 32 fields the probe yields exactly
\* n, and the field type list has length n and lists the declared field
\* types in declaration order.
C20_ReflectionFindsFields ==
    Len(Declared) <= MaxSplat =>
        /\ pc \in {"sized", "reflected"} => ret.value = Len(Declared)
        /\ pc = "reflected" =>
              /\ ret.ok
              /\ Len(fields) = Len(Declared)
              /\ \A i \in 1..Len(Declared) : fields[i] = Declared[i]

C20_Witness ==
    /\ pc = "reflected"
    /\ Len(Declared) = MaxSplat
    /\ ret.ok
    /\ ret.value = MaxSplat
    /\ fields[1] # fields[2]
    /\ fields[32] = "rational"

----------------------------------------------------------------------------
(* Termination of tsv::load *)

\* load is sequential code: a step that can be taken is taken.
SpecLoadRuns == Init /\ [][Next]_vars /\ WF_vars(Next)

\* load has returned the sequence or has thrown.
Ended == pc \in {"done", "failed"}

\* Lines of the input not consumed yet.
Remaining == Len(lines) - taken

\* C21: load always ends, by returning the sequence or by raising an error,
\* and it returns only once the input is exhausted; every parse_record of
\* the record loop consumes a line or ends load, every skip_comment consumes
\* only lines that are there, and a record is appended only after its
\* iteration consumed a line.
C21_LoadTerminates ==
    /\ <>Ended
    /\ [](pc = "done" => Remaining = 0 /\ _input.eof /\ ~_source.available)
    /\ [](Remaining >= 0)
    /\ [](pc \in {"validate", "append"} =>
              last.op = "parse_record" /\ last.took = 1)
    /\ [][/\ pc = "parse" => (Remaining' = Remaining - 1 \/ Ended')
          /\ pc \in {"start", "skip"} => Remaining' = Remaining - last'.took
          /\ Remaining' <= Remaining
          /\ Ended => UNCHANGED vars]_vars

C21_Witness ==
    /\ pc = "done"
    /\ Len(lines) = 3
    /\ taken = 3
    /\ Len(records) = 1
    /\ consumedBy = <<"skip_comment", "parse_fields", "parse_record">>

----------------------------------------------------------------------------
(* Order of splitting and conversion within one line *)

\* Field i finds no text left: the line has fewer than i segments, or its
\* i-th segment is the last one and is empty.
Missing(i) ==
    \/ i > NumSegments(TheLine, _delim)
    \/ i = NumSegments(TheLine, _delim) /\ Segment(TheLine, _delim, i) = <<>>

\* Field i has a token and its conversion fails.
Malformed(i) ==
    /\ ~Missing(i)
    /\ parse(RecordT.fields[i], Segment(TheLine, _delim, i)).thrown

Faulty == {i \in 1..Arity : Missing(i) \/ Malformed(i)}

\* Text is left after the tokens of all the fields.
Excess == Len(TheLine) > SegmentEnd(TheLine, _delim, Arity)

\* C22: the error parse_record raises for a line is that of the leftmost
\* field whose token is missing or unconvertible, whatever is wrong to its
\* right; only when every field converted is text left over reported as
\* excess fields, and otherwise the record holds the converted segments.
C22_LeftmostFaultWins ==
    ParsedALine =>
        IF Faulty # {}
        THEN /\ ~ret.ok
             /\ IF Missing(Least(Faulty))
                THEN err.kind = "format" /\ err.what = missing_field
                ELSE /\ err.kind = "parse"
                     /\ err.what =
                           parse(RecordT.fields[Least(Faulty)],
                                 Segment(TheLine, _delim, Least(Faulty))).exc.what
        ELSE IF Excess
        THEN ~ret.ok /\ err.kind = "format" /\ err.what = excess_field
        ELSE /\ ret.ok
             /\ err.kind = "none"
             /\ record = [i \in 1..Arity |->
                   parse(RecordT.fields[i], Segment(TheLine, _delim, i)).value]

\* A malformed second field hides a missing third field.
C22_Witness ==
    /\ ParsedALine
    /\ Arity = 3
    /\ RecordT.fields[2] = "u8"
    /\ TheLine = <<"1", TAB, HASH>>
    /\ Faulty = {2, 3}
    /\ err.kind = "parse"

----------------------------------------------------------------------------
(* skip_comment called with different prefixes *)

\* A skip_comment step, and a step that delivers a line right after a
\* skip_comment.
SkipStep == last'.op = "skip_comment"

DeliveryAfterSkip ==
    /\ last.op = "skip_comment"
    /\ last'.op \in {"consume", "parse_fields", "parse_record"}
    /\ taken < Len(lines)

\* C23: the lines a call skip_comment(p) consumes are the empty lines and
\* the lines starting with p that come next, whatever prefix an earlier call
\* used: it stops at the first other line, which the next consume,
\* parse_fields or parse_record delivers, and it changes nothing that was
\* delivered before.
C23_SkipKeepsNoPrefix ==
    [][/\ SkipStep =>
             /\ taken' >= taken
             /\ \A j \in (taken + 1)..taken' :
                   IsSkipped(lines[j], last'.prefix)
             /\ taken' < Len(lines) =>
                   ~IsSkipped(lines[taken' + 1], last'.prefix)
             /\ UNCHANGED <<record, fields>>
       /\ DeliveryAfterSkip =>
             /\ taken' = taken + 1
             /\ last'.op = "consume" => ret'.value = lines[taken + 1]
             /\ last'.op = "parse_fields" =>
                   fields' = split_all(lines[taken + 1], _delim, <<>>)
             /\ (last'.op = "parse_record" /\ ret'.ok) =>
                   record' = ParsedFrom(taken + 1).value]_vars

\* skip_comment(NUL), called right after skip_comment(#) had consumed a
\* line starting with # and stopped at a line starting with NUL, has
\* consumed that line and stopped at the next line, which starts with #.
C23_Witness ==
    /\ last.op = "skip_comment"
    /\ last.prefix = NUL
    /\ last.before = HASH
    /\ last.took = 1
    /\ taken = 2
    /\ lines[1] = <<HASH>>
    /\ lines[2] = <<NUL, "1">>
    /\ _source.available
    /\ _source.line = <<HASH>>

----------------------------------------------------------------------------
(* skip_comment with the comment prefix disabled *)

\* C24: with options.comment = 0 the lines skip_comment consumes are the
\* empty lines, and every non-empty line is consumed by the header step or
\* by the record step.
C24_DisabledSkipsOnlyEmpty ==
    opts.comment = NUL =>
        \A i \in 1..Len(consumedBy) :
            consumedBy[i] = "skip_comment" <=> lines[i] = <<>>

----------------------------------------------------------------------------
(* parse_record on an empty line and on a record without fields *)

\* C25: for a record with no fields parse_record accepts an empty line,
\* extracting nothing, and rejects every other line with "excess fields";
\* for a record with fields an empty line fails with "insufficient number
\* of fields", raised for the first field.
C25_EmptyTextAndNoFields ==
    ParsedALine =>
        /\ (Arity = 0 /\ TheLine = <<>>) =>
              /\ ret.ok
              /\ err.kind = "none"
              /\ record = <<>>
        /\ (Arity = 0 /\ TheLine # <<>>) =>
              /\ ~ret.ok
              /\ err.kind = "format"
              /\ err.what = excess_field
        /\ (Arity >= 1 /\ TheLine = <<>>) =>
              /\ ~ret.ok
              /\ err.kind = "format"
              /\ err.what = missing_field
              /\ Missing(1)
              /\ err.line = <<>>
              /\ err.line_number = taken

C25_Witness ==
    /\ ParsedALine
    /\ Arity = 0
    /\ TheLine = <<>>
    /\ ret.ok
    /\ taken = 2
    /\ lines[1] # <<>>

----------------------------------------------------------------------------
(* parse_record on a line that ends right after a delimiter *)

\* The line ends right after its (N-1)-th delimiter: its N-th segment is
\* the last one and is empty.
EndsBeforeLastField ==
    /\ Arity >= 1
    /\ NumSegments(TheLine, _delim) = Arity
    /\ Segment(TheLine, _delim, Arity) = <<>>

MalformedBeforeLast == {i \in 1..(Arity - 1) : Malformed(i)}

\* C26 as stated: a line whose N-th segment is empty and ends the line
\* fails with the format error "insufficient number of fields".
C26_EmptyLastSegmentIsFormatError ==
    (ParsedALine /\ EndsBeforeLastField) =>
        /\ ~ret.ok
        /\ err.kind = "format"
        /\ err.what = missing_field

\* C26 amended: such a line never parses, whatever the type of the last
\* field; it fails with "insufficient number of fields" when the tokens
\* before the last field are valid and with the parse error of the leftmost
\* invalid one otherwise; a line that parses has an empty token only in
\* fields that are followed by a delimiter.
C26_EmptyLastTokenNeverConverted ==
    ParsedALine =>
        /\ EndsBeforeLastField =>
              /\ ~ret.ok
              /\ IF MalformedBeforeLast = {}
                 THEN err.kind = "format" /\ err.what = missing_field
                 ELSE /\ err.kind = "parse"
                      /\ err.what =
                            parse(RecordT.fields[Least(MalformedBeforeLast)],
                                  Segment(TheLine, _delim,
                                          Least(MalformedBeforeLast))).exc.what
        /\ ret.ok =>
              \A i \in 1..Arity :
                  Segment(TheLine, _delim, i) = <<>> =>
                      i < NumSegments(TheLine, _delim)

C26_Witness ==
    /\ ParsedALine
    /\ RecordT.fields = <<"u8", "string">>
    /\ TheLine = <<"1", TAB>>
    /\ ~ret.ok
    /\ err.what = missing_field

----------------------------------------------------------------------------
(* The lookahead of detail::line_reader *)

\* Number of lines std::getline has read from the stream.
LinesRead == _input.pos

\* C27: the lines read from the stream are the lines consume() returned
\* plus the one line a lookahead holds, if any, so the reader is never more
\* than one line ahead; the line it holds is the last one read, and
\* line_number() is the number of lines read.
C27_ReaderAtMostOneAhead ==
    /\ LinesRead = taken + Buffered
    /\ LinesRead - taken \in {0, 1}
    /\ LinesRead <= Len(lines)
    /\ line_number(_source) = LinesRead
    /\ _source.available => _source.line = lines[LinesRead]

C27_Witness ==
    /\ last.op = "peek"
    /\ ~last.avail
    /\ _source.available
    /\ taken = 2
    /\ LinesRead = 3
    /\ line_number(_source) = 3

----------------------------------------------------------------------------
(* After the end of the input *)

\* The reader is at the end of the input: the stream has met the end of
\* its text and the reader holds no line.  (On a text that ends without a
\* newline the stream meets the end while it reads the last line, which the
\* reader then still holds or has just handed out.)
AtEnd == _input.eof /\ ~_source.available

\* The call just made is one that returns a line, a flag or nothing.
Delivering == last.op \in {"peek", "consume", "parse_fields", "parse_record"}

\* C28: a peek() or consume() signals the end only with the stream at its
\* end and every line handed out (the stream is at its end earlier only on a
\* text without final newline, while the reader holds the last line or
\* right after the call that took it), and from then on the stream stays at
\* its end, the reader keeps its buffer, every peek(),
\* consume(), parse_fields() and parse_record() returns nothing or false
\* without an error, nothing is consumed, the vector handed to
\* parse_fields() comes back empty and the record is left as it was, and
\* line_number() is the number of lines of the input.
C28_EndIsAbsorbing ==
    /\ []((ReaderCalled /\ SignalledEnd) => AtEnd)
    /\ [](_input.eof =>
             /\ taken + Buffered = Len(lines)
             /\ _source.available => ~terminated)
    /\ [](AtEnd =>
             /\ taken = Len(lines)
             /\ line_number(_source) = Len(lines)
             /\ (Delivering /\ (terminated \/ last.took = 0)) =>
                   /\ ~ret.ok
                   /\ err.kind = "none"
                   /\ last.took = 0)
    /\ [][AtEnd =>
             /\ AtEnd'
             /\ _input' = _input
             /\ _source' = _source
             /\ fields' = IF last'.op = "parse_fields" THEN <<>> ELSE fields
             /\ record' = record
             /\ Delivering' => ~ret'.ok /\ err'.kind = "none"]_vars

C28_Witness ==
    /\ AtEnd
    /\ last.op = "parse_fields"
    /\ ~ret.ok
    /\ Len(lines) = 3
    /\ line_number(_source) = 3
    /\ fields = <<>>
    /\ record = <<1, 2>>

----------------------------------------------------------------------------
(* What a failed parse_record leaves behind *)

\* A parse_record step, and a parse_record step right after a parse_record
\* that threw.
ParseRecordStep == last'.op = "parse_record"

RetryStep ==
    /\ last.op = "parse_record"
    /\ err.kind # "none"
    /\ ParseRecordStep
    /\ taken < Len(lines)

\* C29: a parse_record that throws or returns false leaves the caller's
\* record as it was; one that returns true assigns the record converted
\* from the line; a call that throws has consumed the line it rejects, and
\* the parse_record that follows a failure takes the line after the one
\* that failed.
C29_FailureKeepsRecord ==
    [][/\ ParseRecordStep =>
             /\ ~ret'.ok => record' = record
             /\ ret'.ok =>
                   /\ taken' = taken + 1
                   /\ record' = ParsedFrom(taken + 1).value
             /\ err'.kind # "none" =>
                   /\ ~ret'.ok
                   /\ taken' = taken + 1
                   /\ ~_source'.available
                   /\ err'.line = lines[taken + 1]
                   /\ ParsedFrom(taken + 1).thrown
             /\ (~ret'.ok /\ err'.kind = "none") => taken' = taken
       /\ RetryStep =>
             /\ taken' = taken + 1
             /\ lines[taken] = err.line
             /\ err'.kind # "none" => err'.line_number = err.line_number + 1
             /\ ret'.ok => record' = ParsedFrom(taken').value]_vars

\* A record parsed from the first line has survived the failure of the
\* second line.
C29_Witness ==
    /\ ParsedALine
    /\ ~ret.ok
    /\ err.kind = "parse"
    /\ taken = 2
    /\ record = <<1, 2>>
    /\ record = ParsedFrom(1).value
    /\ err.line = lines[2]



====
